---- MODULE Spec2Model ----
(***************************************************************************)
(* Model of silx/gui/plot/StatsWidget.py (StatsTable) and                  *)
(* silx/gui/plot/Colorbar.py (ColorbarWidget, Gradation).                  *)
(*                                                                         *)
(* Spec          : the StatsTable attached to PlotWidget objects.          *)
(* SpecColorbar  : the ColorbarWidget attached to one PlotWidget.          *)
(* The two widgets share no state; each specification leaves the other     *)
(* widget's variables at their initial value.                              *)
(***************************************************************************)
EXTENDS Integers, Sequences, FiniteSets, TLC

(***************************************************************************)
(* Bounds of the model                                                     *)
(***************************************************************************)
\* a plot holds at most MaxItems items at a time
MaxItems == 2
\* the callbacks connected on one item's sigItemChanged are counted up to
\* MaxCb (MaxCb stands for "MaxCb or more")
MaxCb == 2

Legends == {"a", "b"}
LegendSeq == <<"a", "b">>
Kinds == {"curve", "image", "scatter", "histogram"}
ActiveKinds == {"curve", "image", "scatter"}
Keys == Legends \X Kinds
Plots == {"p1", "p2"}
\* the items the environment puts in each plot; the second plot stays empty
\* and serves to exchange the plot of the table
KeysOf(p) ==
  IF p = "p1"
  THEN {<<"a", "curve">>, <<"b", "curve">>, <<"a", "image">>,
        <<"a", "scatter">>, <<"a", "histogram">>}
  ELSE {}
\* item data: the curve "a" has two versions of its data, other items one;
\* view limits: two windows
Data == {0, 1}
DataOf(k) == IF k = <<"a", "curve">> THEN Data ELSE {0}
LimitsOf(p) == IF p = "p1" THEN {0, 1} ELSE {0}
NoPlot == "noplot"
NoLegend == "nolegend"
Absent == -1
WholeData == -1
NoHandler == <<"nohandler">>
Handlers == {<<"min", "max">>}
EmptyText == << >>
EmptyMap == [k \in {} |-> EmptyText]
NoKey == <<"nolegend", "nokind">>
Signals == {"sigContentChanged", "sigActiveImageChanged",
            "sigActiveScatterChanged", "sigActiveCurveChanged",
            "sigPlotSignal"}

VARIABLES
  \* ---- PlotWidget objects (the collaborator the table observes)
  content,            \* [Plots -> [Keys -> Data \cup {Absent}]] items of a plot
  active,             \* [Plots -> [ActiveKinds -> Legends \cup {NoLegend}]]
  limits,             \* [Plots -> Limits] the visible data window
  itemConn,           \* [Plots -> [Keys -> 0..MaxCb]] callbacks on item.sigItemChanged
  conn,               \* [Plots -> [Signals -> Nat]] table slots connected per signal
  \* ---- StatsTable fields
  plotRef,            \* self._plotRef
  displayOnlyActItem, \* self._displayOnlyActItem
  statsOnVisibleData, \* self._statsOnVisibleData
  lgdAndKindToItems,  \* self._lgdAndKindToItems: key -> [column name -> cell text]
  rows,               \* rows of the QTableWidget: [Keys -> Nat], the number of
                      \* rows showing each (legend, kind); row order is not kept
  legendsSet,         \* self._legendsSet: [Legends -> Nat], occurrences per legend
  kindHidden,         \* isColumnHidden(kind column)
  statsHandler,       \* self._statsHandler
  columns_index,      \* self._columns_index (ordered column names)
  callbackImage,      \* self._callbackImage/_callbackScatter/_callbackCurve is not None
  \* ---- history: the last operation, its argument and what it met
  last,
  \* ---- history: calls of statsHandler.calculate per key during the last
  \* operation
  nbCalc,
  \* ---- the PlotWidget a ColorbarWidget is attached to
  plotDefaultColormap, \* plot.getDefaultColormap()
  plotActiveImage,     \* plot.getActiveImage(): NoImage or [ndim, pixels, colormap]
  \* ---- ColorbarWidget fields
  colormap,            \* self._colormap: NoColormap or a descriptor
  normChecked,         \* which of the _linearNorm/_logNorm radio buttons is checked
  autoscaleCB,         \* self._autoscaleCB.isChecked()
  gradation,           \* the MyColorMap held by the Gradation of self._gradation
  \* ---- history: the last colorbar operation, its arguments and its outcome
  cbLast

tableVars == <<content, active, limits, itemConn, conn, plotRef,
               displayOnlyActItem, statsOnVisibleData, lgdAndKindToItems, rows,
               legendsSet, kindHidden, statsHandler, columns_index,
               callbackImage, last, nbCalc>>

cbVars == <<plotDefaultColormap, plotActiveImage, colormap, normChecked,
            autoscaleCB, gradation, cbLast>>

Min(a, b) == IF a < b THEN a ELSE b

\* the whole state as one value, threaded through the calls of a handler
W == [content |-> content, active |-> active, limits |-> limits,
      itemConn |-> itemConn, conn |-> conn, plotRef |-> plotRef,
      displayOnlyActItem |-> displayOnlyActItem,
      statsOnVisibleData |-> statsOnVisibleData,
      lgdAndKindToItems |-> lgdAndKindToItems, rows |-> rows,
      legendsSet |-> legendsSet, kindHidden |-> kindHidden,
      statsHandler |-> statsHandler, columns_index |-> columns_index,
      callbackImage |-> callbackImage,
      nbCalc |-> [k \in Keys |-> 0]]

Apply(w) ==
  /\ content' = w.content
  /\ active' = w.active
  /\ limits' = w.limits
  /\ itemConn' = w.itemConn
  /\ conn' = w.conn
  /\ plotRef' = w.plotRef
  /\ displayOnlyActItem' = w.displayOnlyActItem
  /\ statsOnVisibleData' = w.statsOnVisibleData
  /\ lgdAndKindToItems' = w.lgdAndKindToItems
  /\ rows' = w.rows
  /\ legendsSet' = w.legendsSet
  /\ kindHidden' = w.kindHidden
  /\ statsHandler' = w.statsHandler
  /\ columns_index' = w.columns_index
  /\ callbackImage' = w.callbackImage
  /\ nbCalc' = w.nbCalc

(***************************************************************************)
(* Helpers                                                                 *)
(***************************************************************************)
Range(s) == {s[i] : i \in 1..Len(s)}

Dec(n) == IF n > 0 THEN n - 1 ELSE 0

RECURSIVE SumOver(_, _)
SumOver(f, S) ==
  IF S = {} THEN 0
  ELSE LET x == CHOOSE y \in S : TRUE IN f[x] + SumOver(f, S \ {x})

\* QTableWidget.rowCount()
RowCount(w) == SumOver(w.rows, Keys)

(***************************************************************************)
(* The plot's accessors                                                    *)
(***************************************************************************)
\* plot.getCurve / getImage / getScatter / getHistogram (legend): data or Absent
GetItem(w, p, kind, legend) == w.content[p][<<legend, kind>>]

PlotKeys(w, p) == {k \in Keys : w.content[p][k] # Absent}

\* statsHandler.calculate(item, plot, onlimits): one formatted value per statistic
Calculate(handler, data, lim, onVisible) ==
  [name \in Range(handler) |-> <<name, data, IF onVisible THEN lim ELSE WholeData>>]

(***************************************************************************)
(* StatsTable methods                                                      *)
(***************************************************************************)
Tracked(w) == DOMAIN w.lgdAndKindToItems

\* _getItem for every column of a new row: legend and kind cells carry their
\* text, a statistic cell starts empty
NewCells(w, key) ==
  [name \in Range(w.columns_index) |->
     IF name = "legend" THEN key[1]
     ELSE IF name = "kind" THEN key[2] ELSE EmptyText]

UpdateStats(w, legend, kind) ==
  IF w.plotRef = NoPlot THEN w
  ELSE IF w.statsHandler = NoHandler THEN w
  ELSE LET item == GetItem(w, w.plotRef, kind, legend)
           key == <<legend, kind>>
       IN IF item = Absent \/ key \notin Tracked(w) THEN w
          ELSE LET vals == Calculate(w.statsHandler, item,
                                     w.limits[w.plotRef], w.statsOnVisibleData)
                   cells == w.lgdAndKindToItems[key]
               IN [w EXCEPT !.lgdAndKindToItems[key] =
                     [name \in DOMAIN cells \cup DOMAIN vals |->
                        IF name \in DOMAIN vals THEN vals[name] ELSE cells[name]],
                            !.nbCalc[key] = @ + 1]

\* _addItem without the test for a key already tracked
AddItem_NoCheck(w, key) ==
  LET w1 == [w EXCEPT !.rows[key] = @ + 1,
                      !.lgdAndKindToItems =
                        [k \in (DOMAIN @) \cup {key} |->
                           IF k = key THEN NewCells(w, key) ELSE @[k]]]
      w2 == UpdateStats(w1, key[1], key[2])
  IN [w2 EXCEPT !.itemConn[w.plotRef][key] = Min(@ + 1, MaxCb),
                !.kindHidden = (w2.legendsSet[key[1]] = 0),
                !.legendsSet[key[1]] = @ + 1]

\* _addItem(item), item being the item of the attached plot under key
AddItem(w, key) ==
  IF key \in Tracked(w) THEN UpdateStats(w, key[1], key[2])
  ELSE LET w1 == [w EXCEPT !.rows[key] = @ + 1,
                           !.lgdAndKindToItems = @ @@ (key :> NewCells(w, key))]
           w2 == UpdateStats(w1, key[1], key[2])
       IN [w2 EXCEPT !.itemConn[w.plotRef][key] = Min(@ + 1, MaxCb),
                     !.kindHidden = (w2.legendsSet[key[1]] = 0),
                     !.legendsSet[key[1]] = @ + 1]

\* _removeItem without the test for an untracked key
RemoveItem_NoCheck(w, legend, kind) ==
  LET key == <<legend, kind>>
      lgds == [w.legendsSet EXCEPT ![legend] = Dec(@)]
  IN [w EXCEPT !.lgdAndKindToItems = [k \in (DOMAIN @) \ {key} |-> @[k]],
               !.rows[key] = Dec(@),
               !.legendsSet = lgds,
               !.kindHidden = (lgds[legend] = 0)]

\* _removeItem without removeRow
RemoveItem_KeepRow(w, legend, kind) ==
  LET key == <<legend, kind>> IN
  IF key \notin Tracked(w) THEN w
  ELSE LET lgds == [w.legendsSet EXCEPT ![legend] = Dec(@)]
       IN [w EXCEPT !.lgdAndKindToItems =
                       [k \in (DOMAIN @) \ {key} |-> @[k]],
                    !.legendsSet = lgds,
                    !.kindHidden = (lgds[legend] = 0)]

RemoveItem(w, legend, kind) ==
  LET key == <<legend, kind>> IN
  IF key \notin Tracked(w) THEN w
  ELSE LET lgds == [w.legendsSet EXCEPT ![legend] = Dec(@)]
       IN [w EXCEPT !.lgdAndKindToItems =
                       [k \in (DOMAIN @) \ {key} |-> @[k]],
                    !.rows[key] = Dec(@),
                    !.legendsSet = lgds,
                    !.kindHidden = (lgds[legend] = 0)]

RECURSIVE RemoveAll(_, _)
RemoveAll(w, keys) ==
  IF keys = {} THEN w
  ELSE LET k == CHOOSE x \in keys : TRUE
       IN RemoveAll(RemoveItem(w, k[1], k[2]), keys \ {k})

Clear(w) ==
  LET w1 == RemoveAll(w, Tracked(w))
  IN [w1 EXCEPT !.lgdAndKindToItems = EmptyMap,
                !.rows = [k \in Keys |-> 0],
                !.kindHidden = TRUE]

RECURSIVE UpdateAll(_, _)
UpdateAll(w, keys) ==
  IF keys = {} THEN w
  ELSE LET k == CHOOSE x \in keys : TRUE
       IN UpdateAll(UpdateStats(w, k[1], k[2]), keys \ {k})

UpdateAllStats(w) == UpdateAll(w, Tracked(w))

UpdateCurrentStats(w) == UpdateAll(w, Tracked(w))

\* [self._addItem(x) for x in plot items of one kind], in the plot's order
RECURSIVE AddKind(_, _, _)
AddKind(w, kind, i) ==
  IF i > Len(LegendSeq) THEN w
  ELSE LET key == <<LegendSeq[i], kind>>
       IN AddKind(IF w.content[w.plotRef][key] # Absent THEN AddItem(w, key) ELSE w,
                  kind, i + 1)

AddActive(w, kind) ==
  LET lgd == w.active[w.plotRef][kind]
  IN IF lgd # NoLegend THEN AddItem(w, <<lgd, kind>>) ELSE w

\* _updateItemObserve without the clear() before repopulating
UpdateItemObserve_NoClear(w) ==
  IF w.plotRef = NoPlot THEN w
  ELSE IF w.displayOnlyActItem
       THEN AddActive(AddActive(AddActive(w, "curve"), "image"), "scatter")
       ELSE AddKind(AddKind(AddKind(AddKind(w, "curve", 1), "image", 1),
                            "scatter", 1), "histogram", 1)

UpdateItemObserve(w) ==
  IF w.plotRef = NoPlot THEN w
  ELSE LET w1 == Clear(w)
       IN IF w1.displayOnlyActItem
          THEN AddActive(AddActive(AddActive(w1, "curve"), "image"), "scatter")
          ELSE AddKind(AddKind(AddKind(AddKind(w1, "curve", 1), "image", 1),
                               "scatter", 1), "histogram", 1)

Connect(n) == n + 1

Disconnect(n) == Dec(n)

\* _dealWithPlotConnection that never disconnects sigContentChanged
DealWithPlotConnection_NoDisconnect(w, create) ==
  IF w.plotRef = NoPlot THEN w
  ELSE
    LET p == w.plotRef
        w1 ==
          IF w.displayOnlyActItem
          THEN IF create
               THEN [w EXCEPT !.callbackImage = TRUE,
                       !.conn[p]["sigActiveImageChanged"] = Connect(@),
                       !.conn[p]["sigActiveScatterChanged"] = Connect(@),
                       !.conn[p]["sigActiveCurveChanged"] = Connect(@)]
               ELSE IF w.callbackImage
                    THEN [w EXCEPT !.callbackImage = FALSE,
                            !.conn[p]["sigActiveImageChanged"] = Disconnect(@),
                            !.conn[p]["sigActiveScatterChanged"] = Disconnect(@),
                            !.conn[p]["sigActiveCurveChanged"] = Disconnect(@)]
                    ELSE [w EXCEPT !.callbackImage = FALSE]
          ELSE IF create
               THEN [w EXCEPT !.conn[p]["sigContentChanged"] = Connect(@)]
               ELSE w
    IN IF create
       THEN [w1 EXCEPT !.conn[p]["sigPlotSignal"] = Connect(@)]
       ELSE [w1 EXCEPT !.conn[p]["sigPlotSignal"] = Disconnect(@)]

DealWithPlotConnection(w, create) ==
  IF w.plotRef = NoPlot THEN w
  ELSE
    LET p == w.plotRef
        w1 ==
          IF w.displayOnlyActItem
          THEN IF create
               THEN [w EXCEPT !.callbackImage = TRUE,
                       !.conn[p]["sigActiveImageChanged"] = Connect(@),
                       !.conn[p]["sigActiveScatterChanged"] = Connect(@),
                       !.conn[p]["sigActiveCurveChanged"] = Connect(@)]
               ELSE IF w.callbackImage
                    THEN [w EXCEPT !.callbackImage = FALSE,
                            !.conn[p]["sigActiveImageChanged"] = Disconnect(@),
                            !.conn[p]["sigActiveScatterChanged"] = Disconnect(@),
                            !.conn[p]["sigActiveCurveChanged"] = Disconnect(@)]
                    ELSE [w EXCEPT !.callbackImage = FALSE]
          ELSE IF create
               THEN [w EXCEPT !.conn[p]["sigContentChanged"] = Connect(@)]
               ELSE [w EXCEPT !.conn[p]["sigContentChanged"] = Disconnect(@)]
    IN IF create
       THEN [w1 EXCEPT !.conn[p]["sigPlotSignal"] = Connect(@)]
       ELSE [w1 EXCEPT !.conn[p]["sigPlotSignal"] = Disconnect(@)]

(***************************************************************************)
(* Slots of the table                                                      *)
(***************************************************************************)
\* _plotContentChanged that ignores the 'remove' action
PlotContentChanged_NoRemove(w, action, kind, legend) ==
  IF w.plotRef = NoPlot THEN w
  ELSE IF kind \notin Kinds THEN w
  ELSE IF action = "add"
       THEN IF w.content[w.plotRef][<<legend, kind>>] = Absent THEN w
            ELSE AddItem(w, <<legend, kind>>)
       ELSE w

\* _plotContentChanged(action, kind, legend); the item is looked up in the
\* attached plot; an 'add' for an item the plot does not hold raises
PlotContentChanged(w, action, kind, legend) ==
  IF w.plotRef = NoPlot THEN w
  ELSE IF kind \notin Kinds THEN w
  ELSE IF action = "add"
       THEN IF GetItem(w, w.plotRef, kind, legend) = Absent THEN w
            ELSE AddItem(w, <<legend, kind>>)
       ELSE IF action = "remove" THEN RemoveItem(w, legend, kind) ELSE w

\* _activeItemChanged that leaves the rows as they are
ActiveItemChanged_Ignore(w, kind) == w

ActiveItemChanged(w, kind) == UpdateItemObserve(w)

\* _zoomPlotChanged that never recomputes
ZoomPlotChanged_Ignore(w, event) == w

\* _zoomPlotChanged without the test of the event kind
ZoomPlotChanged_AnyEvent(w, event) ==
  IF w.statsOnVisibleData THEN UpdateCurrentStats(w) ELSE w

ZoomPlotChanged(w, event) ==
  IF w.statsOnVisibleData
  THEN IF event = "limitsChanged" THEN UpdateCurrentStats(w) ELSE w
  ELSE w

\* a signal emission runs the slot once per connection
Deliver(n, w, Slot(_)) ==
  IF n = 0 THEN w ELSE IF n = 1 THEN Slot(w) ELSE Slot(Slot(w))

ActiveSignal(kind) ==
  IF kind = "curve" THEN "sigActiveCurveChanged"
  ELSE IF kind = "image" THEN "sigActiveImageChanged"
  ELSE "sigActiveScatterChanged"

EmitContentChanged(w, p, action, key) ==
  Deliver(w.conn[p]["sigContentChanged"], w,
          LAMBDA x : PlotContentChanged(x, action, key[2], key[1]))

EmitActiveChanged(w, p, kind) ==
  Deliver(w.conn[p][ActiveSignal(kind)], w, LAMBDA x : ActiveItemChanged(x, kind))

EmitItemChanged(w, p, key) ==
  Deliver(w.itemConn[p][key], w, LAMBDA x : UpdateStats(x, key[1], key[2]))

EmitPlotSignal(w, p, event) ==
  Deliver(w.conn[p]["sigPlotSignal"], w, LAMBDA x : ZoomPlotChanged(x, event))

Was(key) == key \in DOMAIN lgdAndKindToItems

(***************************************************************************)
(* Initial state: StatsTable(parent, plot=None), two empty plots           *)
(***************************************************************************)
TableInit ==
  /\ content = [p \in Plots |-> [k \in Keys |-> Absent]]
  /\ active = [p \in Plots |-> [k \in ActiveKinds |-> NoLegend]]
  /\ limits = [p \in Plots |-> 0]
  /\ itemConn = [p \in Plots |-> [k \in Keys |-> 0]]
  /\ conn = [p \in Plots |-> [s \in Signals |-> 0]]
  /\ plotRef = NoPlot
  /\ displayOnlyActItem = FALSE
  /\ statsOnVisibleData = FALSE
  /\ lgdAndKindToItems = EmptyMap
  /\ rows = [k \in Keys |-> 0]
  /\ legendsSet = [l \in Legends |-> 0]
  /\ kindHidden = TRUE
  /\ statsHandler = NoHandler
  /\ columns_index = <<"legend", "kind">>
  /\ callbackImage = FALSE
  /\ last = [op |-> "init", key |-> NoKey, was |-> FALSE]
  /\ nbCalc = [k \in Keys |-> 0]

(***************************************************************************)
(* Operations of the plot (each emits its signals synchronously)           *)
(***************************************************************************)
\* addCurve/addImage/addScatter/addHistogram with a new legend
PlotAdd(p, key, d) ==
  /\ content[p][key] = Absent
  /\ Cardinality(PlotKeys(W, p)) < MaxItems
  /\ LET w1 == [W EXCEPT !.content[p][key] = d]
     IN Apply(EmitContentChanged(w1, p, "add", key))
  /\ last' = [op |-> "contentAdd", key |-> key, was |-> Was(key)]
  /\ UNCHANGED cbVars

\* add* with the legend of an item the plot holds: the item's data is set
\* (sigItemChanged) and the content notification says 'add' again
PlotReAdd(p, key, d) ==
  /\ content[p][key] # Absent
  /\ LET w1 == [W EXCEPT !.content[p][key] = d]
         w2 == EmitItemChanged(w1, p, key)
     IN Apply(EmitContentChanged(w2, p, "add", key))
  /\ last' = [op |-> "contentAdd", key |-> key, was |-> Was(key)]
  /\ UNCHANGED cbVars

\* remove(legend, kind): an active item is deactivated first, then the item
\* leaves the plot and the content notification says 'remove'
PlotRemove(p, key) ==
  /\ content[p][key] # Absent
  /\ LET isActive == key[2] \in ActiveKinds /\ active[p][key[2]] = key[1]
         w1 == IF isActive
               THEN EmitActiveChanged([W EXCEPT !.active[p][key[2]] = NoLegend],
                                      p, key[2])
               ELSE W
         w2 == [w1 EXCEPT !.content[p][key] = Absent, !.itemConn[p][key] = 0]
     IN Apply(EmitContentChanged(w2, p, "remove", key))
  /\ last' = [op |-> "contentRemove", key |-> key, was |-> Was(key)]
  /\ UNCHANGED cbVars

\* setActiveCurve / setActiveImage / _setActiveItem('scatter')
PlotSetActive(p, kind, lgd) ==
  /\ active[p][kind] # lgd
  /\ lgd # NoLegend => content[p][<<lgd, kind>>] # Absent
  /\ LET w1 == [W EXCEPT !.active[p][kind] = lgd]
     IN Apply(EmitActiveChanged(w1, p, kind))
  /\ last' = [op |-> "activeChanged", key |-> NoKey, was |-> FALSE]
  /\ UNCHANGED cbVars

\* item.setData(...): sigItemChanged of the item
PlotItemChanged(p, key, d) ==
  /\ content[p][key] # Absent
  /\ content[p][key] # d
  /\ LET w1 == [W EXCEPT !.content[p][key] = d]
     IN Apply(EmitItemChanged(w1, p, key))
  /\ last' = [op |-> "itemChanged", key |-> key, was |-> Was(key)]
  /\ UNCHANGED cbVars

\* zoom or pan: sigPlotSignal with event 'limitsChanged'
PlotLimitsChanged(p, lim) ==
  /\ limits[p] # lim
  /\ LET w1 == [W EXCEPT !.limits[p] = lim]
     IN Apply(EmitPlotSignal(w1, p, "limitsChanged"))
  /\ last' = [op |-> "limitsChanged", key |-> NoKey, was |-> FALSE]
  /\ UNCHANGED cbVars

\* any other sigPlotSignal event
PlotOtherEvent(p) ==
  /\ Apply(EmitPlotSignal(W, p, "mouseMoved"))
  /\ last' = [op |-> "otherEvent", key |-> NoKey, was |-> FALSE]
  /\ UNCHANGED cbVars

(***************************************************************************)
(* Public operations of the table                                          *)
(***************************************************************************)
SetPlotOn(w, p) ==
  LET w1 == DealWithPlotConnection(w, FALSE)
      w2 == [w1 EXCEPT !.plotRef = p]
      w3 == Clear(w2)
      w4 == DealWithPlotConnection(w3, TRUE)
  IN UpdateItemObserve(w4)

SetPlot(p) ==
  /\ Apply(SetPlotOn(W, p))
  /\ last' = [op |-> "setPlot", key |-> NoKey, was |-> FALSE]
  /\ UNCHANGED cbVars

SetStatsOn(w, h) ==
  LET w1 == [w EXCEPT !.columns_index = <<"legend", "kind">>]
      w2 == Clear(w1)
      w3 == [w2 EXCEPT !.columns_index = @ \o h, !.statsHandler = h]
      w4 == UpdateItemObserve(w3)
  IN UpdateAllStats(w4)

SetStats(h) ==
  /\ Apply(SetStatsOn(W, h))
  /\ last' = [op |-> "setStats", key |-> NoKey, was |-> FALSE]
  /\ UNCHANGED cbVars

SetDisplayOnlyActiveItemOn(w, b) ==
  IF w.displayOnlyActItem = b THEN w
  ELSE LET w1 == DealWithPlotConnection(w, FALSE)
           w2 == [w1 EXCEPT !.displayOnlyActItem = b]
           w3 == UpdateItemObserve(w2)
       IN DealWithPlotConnection(w3, TRUE)

SetDisplayOnlyActiveItem(b) ==
  /\ displayOnlyActItem # b
  /\ Apply(SetDisplayOnlyActiveItemOn(W, b))
  /\ last' = [op |-> "setDisplayOnlyActiveItem", key |-> NoKey, was |-> FALSE]
  /\ UNCHANGED cbVars

\* setStatsOnVisibleData that stores the flag and recomputes nothing
SetStatsOnVisibleDataOn_NoUpdate(w, b) ==
  IF w.statsOnVisibleData # b THEN [w EXCEPT !.statsOnVisibleData = b] ELSE w

SetStatsOnVisibleDataOn(w, b) ==
  IF w.statsOnVisibleData # b
  THEN UpdateCurrentStats([w EXCEPT !.statsOnVisibleData = b])
  ELSE w

SetStatsOnVisibleData(b) ==
  /\ statsOnVisibleData # b
  /\ Apply(SetStatsOnVisibleDataOn(W, b))
  /\ last' = [op |-> "setStatsOnVisibleData", key |-> NoKey, was |-> FALSE]
  /\ UNCHANGED cbVars

ClearTable ==
  /\ Apply(Clear(W))
  /\ last' = [op |-> "clear", key |-> NoKey, was |-> FALSE]
  /\ UNCHANGED cbVars

TableNext ==
  \/ \E p \in Plots : \E k \in KeysOf(p) : \E d \in DataOf(k) : PlotAdd(p, k, d)
  \/ \E p \in Plots : \E k \in KeysOf(p) : \E d \in DataOf(k) : PlotReAdd(p, k, d)
  \/ \E p \in Plots : \E k \in KeysOf(p) : PlotRemove(p, k)
  \/ \E p \in Plots, kind \in ActiveKinds, lgd \in Legends \cup {NoLegend} :
       PlotSetActive(p, kind, lgd)
  \/ \E p \in Plots : \E k \in KeysOf(p) : \E d \in DataOf(k) :
       PlotItemChanged(p, k, d)
  \/ \E p \in Plots : \E lim \in LimitsOf(p) : PlotLimitsChanged(p, lim)
  \/ \E p \in Plots : PlotOtherEvent(p)
  \/ \E p \in Plots \cup {NoPlot} : SetPlot(p)
  \/ \E h \in Handlers : SetStats(h)
  \/ \E b \in BOOLEAN : SetDisplayOnlyActiveItem(b)
  \/ \E b \in BOOLEAN : SetStatsOnVisibleData(b)
  \/ ClearTable

(***************************************************************************)
(* Colorbar.py                                                             *)
(***************************************************************************)
\* relative positions are the multiples of 1/PDen
PDen == 2

NoName == "None"
NoColors == "None"
NoColormap == [name |-> NoName]
NoImage == [ndim |-> 0]
NaN == 1000
PosInf == 1001
\* (vmin, vmax) pairs the environment uses
Ranges == {<<1, 3>>, <<-1, 3>>, <<2, 0>>}
Normalizations == {"linear", "log"}

Descriptor(name, normalization, autoscale, vmin, vmax, colors) ==
  [name |-> name, normalization |-> normalization, autoscale |-> autoscale,
   vmin |-> vmin, vmax |-> vmax, colors |-> colors]

\* default colormaps a plot may carry
DefaultCmaps ==
  {Descriptor("gray", "linear", TRUE, 0, 1, NoColors),
   Descriptor("gray", "linear", FALSE, 3, 1, NoColors),
   Descriptor("gray", "log", FALSE, -1, 3, NoColors)}

\* active images a plot may carry
Image(ndim, pixels, n, a, lo, hi) ==
  [ndim |-> ndim, pixels |-> pixels,
   colormap |-> Descriptor("temperature", n, a, lo, hi, NoColors)]

Images ==
  {Image(3, {2, 3}, "linear", TRUE, 0, 1),
   Image(2, {-1, 2}, "linear", TRUE, 0, 1),
   Image(2, {-1, 2, NaN}, "log", TRUE, 0, 1),
   Image(2, {-1, NaN}, "log", TRUE, 0, 1),
   Image(2, {-1, 2}, "log", FALSE, -1, 3),
   Image(2, {-1, 2}, "linear", FALSE, 3, 1)}


C == [plotDefaultColormap |-> plotDefaultColormap,
      plotActiveImage |-> plotActiveImage, colormap |-> colormap,
      normChecked |-> normChecked, autoscaleCB |-> autoscaleCB,
      gradation |-> gradation, raised |-> FALSE]

CbApply(c) ==
  /\ plotDefaultColormap' = c.plotDefaultColormap
  /\ plotActiveImage' = c.plotActiveImage
  /\ colormap' = c.colormap
  /\ normChecked' = c.normChecked
  /\ autoscaleCB' = c.autoscaleCB
  /\ gradation' = c.gradation

\* MyColorMap.__init__(colormap)
MyColorMap(cmap) ==
  [name |-> cmap.name, normalization |-> cmap.normalization,
   autoscale |-> cmap.autoscale, vmin |-> cmap.vmin, vmax |-> cmap.vmax]

\* setColormap that resets a log range only when both bounds are <= 0
SetColormapOn_BothBounds(c, name, normalization, vmin, vmax, colors, autoscale) ==
  IF name = NoName /\ colors = NoColors
  THEN [c EXCEPT !.colormap = NoColormap]
  ELSE IF normalization \notin {"linear", "log"}
  THEN [c EXCEPT !.raised = TRUE]
  ELSE LET bad == normalization = "log" /\ (vmin <= 0 /\ vmax <= 0)
           lo == IF bad THEN 1 ELSE vmin
           hi == IF bad THEN 10 ELSE vmax
       IN [c EXCEPT !.normChecked = normalization,
                    !.autoscaleCB = autoscale,
                    !.colormap = Descriptor(name, normalization, autoscale,
                                            lo, hi, colors)]

\* setColormap that sets the autoscale checkbox before it checks the
\* normalization name
SetColormapOn_LateCheck(c, name, normalization, vmin, vmax, colors, autoscale) ==
  IF name = NoName /\ colors = NoColors
  THEN [c EXCEPT !.colormap = NoColormap]
  ELSE IF normalization \notin {"linear", "log"}
  THEN [c EXCEPT !.raised = TRUE, !.autoscaleCB = autoscale]
  ELSE LET bad == normalization = "log" /\ (vmin <= 0 \/ vmax <= 0)
           lo == IF bad THEN 1 ELSE vmin
           hi == IF bad THEN 10 ELSE vmax
       IN [c EXCEPT !.normChecked = normalization,
                    !.autoscaleCB = autoscale,
                    !.colormap = Descriptor(name, normalization, autoscale,
                                            lo, hi, colors)]

\* ColorbarWidget.setColormap(name, normalization, vmin, vmax, colors, autoscale)
SetColormapOn(c, name, normalization, vmin, vmax, colors, autoscale) ==
  IF name = NoName /\ colors = NoColors
  THEN [c EXCEPT !.colormap = NoColormap]
  ELSE IF normalization \notin {"linear", "log"}
  THEN [c EXCEPT !.raised = TRUE]
  ELSE LET bad == normalization = "log" /\ (vmin <= 0 \/ vmax <= 0)
           lo == IF bad THEN 1 ELSE vmin
           hi == IF bad THEN 10 ELSE vmax
       IN [c EXCEPT !.normChecked = normalization,
                    !.autoscaleCB = autoscale,
                    !.colormap = Descriptor(name, normalization, autoscale,
                                            lo, hi, colors)]

\* ColorbarWidget._syncWithDefaultColormap()
SyncWithDefaultColormap(c) ==
  LET cmap == c.plotDefaultColormap
      lo == IF cmap.autoscale THEN 1 ELSE cmap.vmin
      hi == IF cmap.autoscale THEN 10 ELSE cmap.vmax
  IN SetColormapOn(c, cmap.name, cmap.normalization, lo, hi, cmap.colors, FALSE)

IsFinite(x) == x \notin {NaN, PosInf}

SetMin(S) == CHOOSE x \in S : \A y \in S : x <= y

SetMax(S) == CHOOSE x \in S : \A y \in S : x >= y

\* _activeImageChanged that takes the default colormap whatever the image
ActiveImageChangedOn_AlwaysDefault(c, legendIsNone) == SyncWithDefaultColormap(c)

\* _activeImageChanged whose log selection keeps the values <= 0
ActiveImageChangedOn_NoPositive(c, legendIsNone) ==
  IF legendIsNone THEN SyncWithDefaultColormap(c)
  ELSE LET image == c.plotActiveImage IN
       IF image.ndim # 2 THEN SyncWithDefaultColormap(c)
       ELSE LET cmap == image.colormap
                data == {x \in image.pixels : IsFinite(x)}
            IN IF cmap.autoscale
               THEN IF data = {} THEN [c EXCEPT !.raised = TRUE]
                    ELSE SetColormapOn(c, cmap.name, cmap.normalization,
                                       SetMin(data), SetMax(data), cmap.colors,
                                       FALSE)
               ELSE SetColormapOn(c, cmap.name, cmap.normalization, cmap.vmin,
                                  cmap.vmax, cmap.colors, FALSE)

\* ColorbarWidget._activeImageChanged(previous, legend); data.min() of an empty
\* selection raises
ActiveImageChangedOn(c, legendIsNone) ==
  IF legendIsNone THEN SyncWithDefaultColormap(c)
  ELSE LET image == c.plotActiveImage IN
       IF image.ndim # 2 THEN SyncWithDefaultColormap(c)
       ELSE LET cmap == image.colormap
                data == IF cmap.normalization = "log"
                        THEN {x \in image.pixels : x # NaN /\ x > 0 /\ IsFinite(x)}
                        ELSE {x \in image.pixels : IsFinite(x)}
            IN IF cmap.autoscale
               THEN IF data = {} THEN [c EXCEPT !.raised = TRUE]
                    ELSE SetColormapOn(c, cmap.name, cmap.normalization,
                                       SetMin(data), SetMax(data), cmap.colors,
                                       FALSE)
               ELSE SetColormapOn(c, cmap.name, cmap.normalization, cmap.vmin,
                                  cmap.vmax, cmap.colors, FALSE)

\* the range test without its upper end
InUnitInterval_NoUpper(k) == k >= 0

\* Gradation.getValueFromRelativePostion(k / PDen), as a multiple of 1/PDen
InUnitInterval(k) == k >= 0 /\ k <= PDen

\* the interpolation with vmax in place of the width vmax - vmin
GetValueFromRelativePostion_NoWidth(g, k) == g.vmin * PDen + g.vmax * k

GetValueFromRelativePostion(g, k) == g.vmin * PDen + (g.vmax - g.vmin) * k

NoArgs == [name |-> NoName]

\* ColorbarWidget(plot=plot) on a plot with default colormap d and no active
\* image: the Gradation is built from d, then _activeImageChanged(None, None)
CbInitWith(d) ==
  LET c0 == [plotDefaultColormap |-> d, plotActiveImage |-> NoImage,
             colormap |-> NoColormap, normChecked |-> "none",
             autoscaleCB |-> FALSE, gradation |-> MyColorMap(d), raised |-> FALSE]
      c1 == ActiveImageChangedOn(c0, TRUE)
  IN /\ plotDefaultColormap = c1.plotDefaultColormap
     /\ plotActiveImage = c1.plotActiveImage
     /\ colormap = c1.colormap
     /\ normChecked = c1.normChecked
     /\ autoscaleCB = c1.autoscaleCB
     /\ gradation = c1.gradation
     /\ cbLast = [op |-> "init", raised |-> c1.raised, args |-> NoArgs, k |-> 0,
                  value |-> 0]

\* plot.addImage / setActiveImage / remove: sigActiveImageChanged(previous, legend)
PlotActiveImageChanged(img) ==
  /\ img # plotActiveImage
  /\ LET c1 == ActiveImageChangedOn([C EXCEPT !.plotActiveImage = img],
                                    img = NoImage)
     IN /\ CbApply(c1)
        /\ cbLast' = [op |-> "activeImageChanged", raised |-> c1.raised,
                      args |-> NoArgs, k |-> 0, value |-> 0]
  /\ UNCHANGED tableVars

\* plot.setDefaultColormap(d): no slot of the colorbar is connected to it
PlotSetDefaultColormap(d) ==
  /\ d # plotDefaultColormap
  /\ CbApply([C EXCEPT !.plotDefaultColormap = d])
  /\ cbLast' = [op |-> "setDefaultColormap", raised |-> FALSE, args |-> NoArgs,
                k |-> 0, value |-> 0]
  /\ UNCHANGED tableVars

SetColormap(name, normalization, r, colors, autoscale) ==
  LET c1 == SetColormapOn(C, name, normalization, r[1], r[2], colors, autoscale)
  IN /\ CbApply(c1)
     /\ cbLast' = [op |-> "setColormap", raised |-> c1.raised,
                   args |-> Descriptor(name, normalization, autoscale, r[1], r[2],
                                       colors),
                   k |-> 0, value |-> 0]
     /\ UNCHANGED tableVars

\* a query of the gradient at position k / PDen; outside [0, 1] it raises
GetValue(k) ==
  /\ CbApply(C)
  /\ cbLast' = [op |-> "getValue", raised |-> ~InUnitInterval(k), args |-> NoArgs,
                k |-> k,
                value |-> IF InUnitInterval(k)
                          THEN GetValueFromRelativePostion(gradation, k) ELSE 0]
  /\ UNCHANGED tableVars

\* ColorbarWidget.getColormap(): self._colormap.copy(); None has no copy()
GetColormapOn(c) ==
  IF c.colormap = NoColormap THEN [c EXCEPT !.raised = TRUE] ELSE c

GetColormap ==
  LET c1 == GetColormapOn(C)
  IN /\ CbApply(c1)
     /\ cbLast' = [op |-> "getColormap", raised |-> c1.raised,
                   args |-> IF c1.raised THEN NoArgs ELSE c1.colormap,
                   k |-> 0, value |-> 0]
     /\ UNCHANGED tableVars

CbNext ==
  \/ \E img \in Images \cup {NoImage} : PlotActiveImageChanged(img)
  \/ \E d \in DefaultCmaps : PlotSetDefaultColormap(d)
  \/ \E nc \in {<<"gray", NoColors>>, <<NoName, NoColors>>, <<NoName, "lut">>},
        n \in Normalizations \cup {"sqrt"}, r \in Ranges, a \in BOOLEAN :
       SetColormap(nc[1], n, r, nc[2], a)
  \/ \E k \in (0 - 1)..(PDen + 1) : GetValue(k)
  \/ GetColormap

(***************************************************************************)
(* Specifications                                                          *)
(***************************************************************************)
vars == <<tableVars, cbVars>>

\* the default colormap of a new plot
PlotDefault == Descriptor("gray", "linear", TRUE, 0, 1, NoColors)

Init == TableInit /\ CbInitWith(PlotDefault)

Next == TableNext

Spec == Init /\ [][Next]_vars

CbInit == TableInit /\ \E d \in DefaultCmaps : CbInitWith(d)

SpecColorbar == CbInit /\ [][CbNext]_vars

(***************************************************************************)
(* Properties of the StatsTable (checked under Spec)                       *)
(***************************************************************************)
TrackedNow == DOMAIN lgdAndKindToItems

PlotKeysNow(p) == {k \in Keys : content[p][k] # Absent}

ActiveKeysNow(p) ==
  {<<active[p][kind], kind>> : kind \in {x \in ActiveKinds : active[p][x] # NoLegend}}

Attached == plotRef \in Plots

AttachedKeys == PlotKeysNow(plotRef)

\* the values a row must show for the item's current data and the flags
Expected(key) ==
  Calculate(statsHandler, content[plotRef][key], limits[plotRef], statsOnVisibleData)

RowShowsCurrent(key) ==
  \A name \in Range(statsHandler) :
    lgdAndKindToItems[key][name] = Expected(key)[name]

LastRowShowsCurrent == RowShowsCurrent(last.key)

TableSame ==
  /\ lgdAndKindToItems' = lgdAndKindToItems
  /\ rows' = rows
  /\ legendsSet' = legendsSet
  /\ kindHidden' = kindHidden

\* C1: in all-items mode with a plot attached the tracked keys follow the
\* plot's items through content-changed notifications: a rebuild (setPlot,
\* setStats, mode change) leaves tracked = items of the plot, and a
\* content-changed notification met with tracked = items leaves
\* tracked = items again; an 'add' of an untracked item creates its row, a
\* 'remove' deletes the row.
C1_ContentFollowsPlot ==
  [][/\ (/\ last'.op \in {"setPlot", "setStats", "setDisplayOnlyActiveItem"}
         /\ Attached' /\ ~displayOnlyActItem')
        => TrackedNow' = AttachedKeys'
     /\ (/\ last'.op \in {"contentAdd", "contentRemove"}
         /\ Attached /\ ~displayOnlyActItem
         /\ TrackedNow = PlotKeysNow(plotRef))
        => /\ TrackedNow' = AttachedKeys'
           /\ (last'.op = "contentAdd" /\ content[plotRef][last'.key] = Absent
                 /\ plotRef = "p1")
                => /\ last'.key \notin TrackedNow
                   /\ last'.key \in TrackedNow'
                   /\ rows'[last'.key] = 1
           /\ (last'.op = "contentRemove" /\ plotRef = "p1")
                => /\ last'.key \in TrackedNow
                   /\ last'.key \notin TrackedNow'
                   /\ rows'[last'.key] = 0]_vars

C1_Witness ==
  /\ last.op = "contentAdd" /\ ~last.was
  /\ Attached /\ ~displayOnlyActItem
  /\ Cardinality(TrackedNow) = 2
  /\ TrackedNow = PlotKeysNow(plotRef)

\* C2: _addItem on a key already tracked (an 'add' notification for a tracked
\* item in all-items mode) keeps the tracked keys, the rows (one row for the
\* key) and the legend list, and the row shows the values of the item's new
\* data.
C2_AddIdempotent ==
  [][(/\ last'.op = "contentAdd" /\ last'.was
      /\ plotRef = "p1" /\ ~displayOnlyActItem)
     => /\ TrackedNow' = TrackedNow
        /\ rows' = rows
        /\ rows'[last'.key] = 1
        /\ RowCount(W)' = RowCount(W)
        /\ legendsSet' = legendsSet
        /\ kindHidden' = kindHidden
        /\ statsHandler # NoHandler => LastRowShowsCurrent'
        /\ \A k \in TrackedNow \ {last'.key} :
             lgdAndKindToItems'[k] = lgdAndKindToItems[k]]_vars

C2_Witness ==
  /\ last.op = "contentAdd" /\ last.was
  /\ plotRef = "p1" /\ ~displayOnlyActItem
  /\ statsHandler # NoHandler
  /\ last.key \in TrackedNow
  /\ rows[last.key] = 1
  /\ content["p1"][last.key] = 1
  /\ lgdAndKindToItems[last.key]["min"] = <<"min", 1, WholeData>>

\* C3: _removeItem on an untracked key (a 'remove' notification for an item
\* the table does not track) and _updateStats on an untracked key (the change
\* callback of an item the table no longer tracks) change nothing in the
\* table: tracked keys, rows, cell values, legend list.
C3_UntrackedNoOp ==
  [][(\/ /\ last'.op = "contentRemove" /\ ~last'.was
         /\ conn["p1"]["sigContentChanged"] > 0
      \/ /\ last'.op = "itemChanged" /\ ~last'.was
         /\ itemConn["p1"][last'.key] > 0)
     => TableSame]_vars

C3_Witness ==
  /\ last.op = "contentRemove" /\ ~last.was
  /\ conn["p1"]["sigContentChanged"] > 0
  /\ plotRef = "p1"
  /\ TrackedNow # {}
  /\ \E k \in TrackedNow : k[1] = last.key[1]

\* C4: after setDisplayOnlyActiveItem changed the mode of a table with a plot,
\* the tracked keys are a function of the plot and the new mode: the active
\* curve, image and scatter in active-only mode, all items of the plot in
\* all-items mode, one row each.
C4_ModeRebuild ==
  (last.op = "setDisplayOnlyActiveItem" /\ Attached)
  => /\ TrackedNow = IF displayOnlyActItem THEN ActiveKeysNow(plotRef)
                     ELSE PlotKeysNow(plotRef)
     /\ \A k \in Keys : rows[k] = IF k \in TrackedNow THEN 1 ELSE 0

C4_Witness ==
  /\ last.op = "setDisplayOnlyActiveItem" /\ plotRef = "p1"
  /\ displayOnlyActItem
  /\ PlotKeysNow("p1") = {<<"a", "curve">>, <<"a", "image">>}
  /\ active["p1"]["curve"] = "a" /\ active["p1"]["image"] = NoLegend
  /\ TrackedNow = {<<"a", "curve">>}
  /\ RowCount(W) = 1

\* C5: setStatsOnVisibleData with a new value keeps the tracked keys, the rows,
\* the active-item-only mode and the subscriptions, and every tracked row
\* shows the values computed under the new flag.
C5_VisibleToggle ==
  [][(last'.op = "setStatsOnVisibleData")
     => /\ statsOnVisibleData' # statsOnVisibleData
        /\ TrackedNow' = TrackedNow
        /\ rows' = rows
        /\ displayOnlyActItem' = displayOnlyActItem
        /\ conn' = conn
        /\ itemConn' = itemConn
        /\ callbackImage' = callbackImage
        /\ (Attached /\ statsHandler # NoHandler)
           => \A k \in TrackedNow :
                content[plotRef][k] # Absent => RowShowsCurrent(k)']_vars

C5_Witness ==
  /\ last.op = "setStatsOnVisibleData"
  /\ statsOnVisibleData
  /\ plotRef = "p1" /\ statsHandler # NoHandler
  /\ Cardinality(TrackedNow) = 2
  /\ limits["p1"] = 1
  /\ \A k \in TrackedNow : content["p1"][k] # Absent /\ RowShowsCurrent(k)

Subscribed(s) ==
  \/ s = "sigPlotSignal"
  \/ s = "sigContentChanged" /\ ~displayOnlyActItem
  \/ s \in {"sigActiveImageChanged", "sigActiveScatterChanged",
            "sigActiveCurveChanged"} /\ displayOnlyActItem

\* C6: every signal of a plot is connected to the table at most once, a plot
\* that is not the attached one has no connection left, and of the attached
\* plot only the signals of the current mode are connected.
C6_SymmetricSubscriptions ==
  \A p \in Plots, s \in Signals :
    /\ conn[p][s] <= 1
    /\ p # plotRef => conn[p][s] = 0
    /\ conn[p][s] = 1 => Subscribed(s)
    /\ (p = plotRef /\ Subscribed(s)) => conn[p][s] = 1

C6_Witness ==
  /\ last.op = "setPlot" /\ plotRef = "p2"
  /\ displayOnlyActItem
  /\ \E k \in Keys : itemConn["p1"][k] > 0
  /\ conn["p2"]["sigActiveCurveChanged"] = 1

\* C7: the rows of the table and the keys of the mapping agree: one row per
\* tracked key, no row for another key, so the row count is the number of
\* tracked keys.
C7_UniqueKeys ==
  /\ \A k \in Keys : rows[k] = IF k \in TrackedNow THEN 1 ELSE 0
  /\ RowCount(W) = Cardinality(TrackedNow)

C7_Witness ==
  /\ last.op = "contentRemove" /\ last.was
  /\ Cardinality(TrackedNow) = 1
  /\ RowCount(W) = 1

(***************************************************************************)
(* Properties of the ColorbarWidget (checked under SpecColorbar)           *)
(***************************************************************************)
SetsColormap(a) == ~(a.name = NoName /\ a.colors = NoColors)

\* C8 as stated: every setColormap call with normalization 'log' and
\* vmin <= 0 or vmax <= 0 stores the range (1, 10) without raising, and every
\* stored descriptor with log normalization has vmin > 0 and vmax > 0.
C8_Original ==
  /\ (/\ cbLast.op = "setColormap"
      /\ cbLast.args.normalization = "log"
      /\ (cbLast.args.vmin <= 0 \/ cbLast.args.vmax <= 0))
     => /\ ~cbLast.raised
        /\ colormap # NoColormap
        /\ colormap.vmin = 1 /\ colormap.vmax = 10
  /\ (colormap # NoColormap /\ colormap.normalization = "log")
     => colormap.vmin > 0 /\ colormap.vmax > 0

\* C8 (amended): a setColormap call with a name or colors, normalization 'log'
\* and vmin <= 0 or vmax <= 0 stores the range (1, 10) and raises nothing; a
\* call with neither name nor colors stores no descriptor at all; every stored
\* descriptor with log normalization has vmin > 0 and vmax > 0.
C8_LogFallback ==
  /\ (/\ cbLast.op = "setColormap"
      /\ SetsColormap(cbLast.args)
      /\ cbLast.args.normalization = "log"
      /\ (cbLast.args.vmin <= 0 \/ cbLast.args.vmax <= 0))
     => /\ ~cbLast.raised
        /\ colormap # NoColormap
        /\ colormap.normalization = "log"
        /\ colormap.vmin = 1 /\ colormap.vmax = 10
  /\ (cbLast.op = "setColormap" /\ ~SetsColormap(cbLast.args))
     => ~cbLast.raised /\ colormap = NoColormap
  /\ (colormap # NoColormap /\ colormap.normalization = "log")
     => colormap.vmin > 0 /\ colormap.vmax > 0

C8_Witness ==
  /\ cbLast.op = "setColormap"
  /\ cbLast.args.normalization = "log"
  /\ cbLast.args.vmin > 0 /\ cbLast.args.vmax <= 0
  /\ colormap # NoColormap
  /\ colormap.vmin = 1 /\ colormap.vmax = 10

\* C9: a setColormap call with a name or colors and a normalization other than
\* 'linear' and 'log' raises, and leaves the stored descriptor, the checked
\* normalization and the autoscale checkbox as they were.
C9_InvalidNormalization ==
  [][(/\ cbLast'.op = "setColormap"
      /\ SetsColormap(cbLast'.args)
      /\ cbLast'.args.normalization \notin {"linear", "log"})
     => /\ cbLast'.raised
        /\ colormap' = colormap
        /\ normChecked' = normChecked
        /\ autoscaleCB' = autoscaleCB]_vars

C9_Witness ==
  /\ cbLast.op = "setColormap" /\ cbLast.raised
  /\ cbLast.args.normalization = "sqrt"
  /\ cbLast.args.autoscale # autoscaleCB
  /\ colormap # NoColormap

Value(k) == GetValueFromRelativePostion(gradation, k)

\* C10 as stated: for every descriptor the gradient holds the value is
\* monotonic non-decreasing in the relative position.
C10_Original ==
  \A k1, k2 \in 0..PDen : k1 <= k2 => Value(k1) <= Value(k2)

\* C10 (amended): the value at position 0 is vmin, at position 1 vmax, a query
\* returns the point at p of the segment from vmin to vmax, and the value is
\* monotonic non-decreasing in p when vmin <= vmax (non-increasing when
\* vmax <= vmin).
C10_LinearValue ==
  /\ Value(0) = gradation.vmin * PDen
  /\ Value(PDen) = gradation.vmax * PDen
  /\ (cbLast.op = "getValue" /\ ~cbLast.raised)
     => cbLast.value * PDen
          = Value(0) * (PDen - cbLast.k) + Value(PDen) * cbLast.k
  /\ gradation.vmin <= gradation.vmax
     => \A k1, k2 \in 0..PDen : k1 <= k2 => Value(k1) <= Value(k2)
  /\ gradation.vmax <= gradation.vmin
     => \A k1, k2 \in 0..PDen : k1 <= k2 => Value(k1) >= Value(k2)

C10_Witness ==
  /\ cbLast.op = "getValue" /\ ~cbLast.raised
  /\ cbLast.k = 1
  /\ gradation.vmin = 0 - 1 /\ gradation.vmax = 3
  /\ cbLast.value = 2

\* C11: a query of the gradient at a relative position below 0 or above 1
\* raises the invalid-value error and gives no value; a query inside [0, 1]
\* does not raise.
C11_OutOfRange ==
  (cbLast.op = "getValue")
  => /\ cbLast.raised <=> (cbLast.k < 0 \/ cbLast.k > PDen)
     /\ cbLast.raised => cbLast.value = 0

C11_Witness ==
  /\ cbLast.op = "getValue" /\ cbLast.raised
  /\ cbLast.k = PDen + 1
  /\ gradation.vmin = 3

\* the descriptor _activeImageChanged reads: the plot's default colormap when
\* no image is active or the active image is not 2-dimensional, the active
\* image's colormap otherwise
SyncSource ==
  IF plotActiveImage = NoImage \/ plotActiveImage.ndim # 2
  THEN plotDefaultColormap
  ELSE plotActiveImage.colormap

\* the values of the active image _activeImageChanged takes the range from
ValidSamples ==
  IF plotActiveImage.colormap.normalization = "log"
  THEN {x \in plotActiveImage.pixels : IsFinite(x) /\ x > 0}
  ELSE {x \in plotActiveImage.pixels : IsFinite(x)}

EmptySelection ==
  /\ plotActiveImage # NoImage
  /\ plotActiveImage.ndim = 2
  /\ plotActiveImage.colormap.autoscale
  /\ ValidSamples = {}

SyncedWithImage ==
  /\ cbLast.op = "activeImageChanged"
  /\ plotActiveImage # NoImage
  /\ plotActiveImage.ndim = 2
  /\ ~EmptySelection

\* C13 as stated: synchronised with a 2-dimensional active image, the stored
\* range is the minimum and maximum of the valid samples when the image's
\* colormap has autoscale, and the colormap's own vmin and vmax when it has
\* not.
C13_Original ==
  SyncedWithImage
  => /\ ~cbLast.raised
     /\ colormap # NoColormap
     /\ colormap.vmin = IF plotActiveImage.colormap.autoscale
                        THEN SetMin(ValidSamples)
                        ELSE plotActiveImage.colormap.vmin
     /\ colormap.vmax = IF plotActiveImage.colormap.autoscale
                        THEN SetMax(ValidSamples)
                        ELSE plotActiveImage.colormap.vmax

\* C13 (amended): with autoscale the stored range is the minimum and maximum
\* of the finite values (finite and > 0 for log); without autoscale it is the
\* colormap's own vmin and vmax, except for log normalization with vmin <= 0
\* or vmax <= 0, where it is (1, 10).
C13_AppliedRange ==
  SyncedWithImage
  => LET cmap == plotActiveImage.colormap
         fallback == /\ ~cmap.autoscale
                     /\ cmap.normalization = "log"
                     /\ (cmap.vmin <= 0 \/ cmap.vmax <= 0)
     IN /\ ~cbLast.raised
        /\ colormap # NoColormap
        /\ colormap.vmin = IF cmap.autoscale THEN SetMin(ValidSamples)
                           ELSE IF fallback THEN 1 ELSE cmap.vmin
        /\ colormap.vmax = IF cmap.autoscale THEN SetMax(ValidSamples)
                           ELSE IF fallback THEN 10 ELSE cmap.vmax

C13_Witness ==
  /\ SyncedWithImage
  /\ plotActiveImage.colormap.autoscale
  /\ plotActiveImage.colormap.normalization = "log"
  /\ plotActiveImage.pixels = {0 - 1, 2, NaN}
  /\ colormap # NoColormap
  /\ colormap.vmin = 2 /\ colormap.vmax = 2

\* C14 as stated: an active-image-changed notification for an autoscaled
\* 2-dimensional image without a valid sample (no finite value, or for log no
\* finite value > 0) is handled to its end: nothing is raised and the image's
\* colormap is stored with a substituted range.
C14_Original ==
  (cbLast.op = "activeImageChanged" /\ EmptySelection)
  => /\ ~cbLast.raised
     /\ colormap # NoColormap
     /\ colormap.name = plotActiveImage.colormap.name
     /\ colormap.normalization = plotActiveImage.colormap.normalization

\* the state the code reaches instead: the handler has raised and the
\* descriptor of before the notification is still stored
C14_Witness ==
  /\ cbLast.op = "activeImageChanged" /\ cbLast.raised
  /\ EmptySelection
  /\ plotActiveImage.pixels = {0 - 1, NaN}
  /\ colormap # NoColormap
  /\ colormap.name = "gray"

\* C15 as stated: after a synchronisation handled to its end (an
\* active-image-changed notification or a setColormap call that stores a
\* descriptor) the colormap held by the gradient has the name, vmin and vmax
\* of the stored descriptor.
C15_Original ==
  (/\ cbLast.op \in {"activeImageChanged", "setColormap"}
   /\ ~cbLast.raised
   /\ colormap # NoColormap)
  => /\ gradation.name = colormap.name
     /\ gradation.vmin = colormap.vmin
     /\ gradation.vmax = colormap.vmax

\* the state the code reaches instead: the gradient still holds the default
\* colormap of the construction
C15_Witness ==
  /\ cbLast.op = "setColormap" /\ ~cbLast.raised
  /\ colormap # NoColormap
  /\ colormap.vmin = 1 /\ colormap.vmax = 3
  /\ colormap.normalization = "linear"
  /\ gradation.vmin = 0 /\ gradation.vmax = 1

\* C16 as stated: getColormap with no colormap set returns None and does not
\* fail.
C16_Original ==
  (cbLast.op = "getColormap" /\ colormap = NoColormap) => ~cbLast.raised

\* the state the code reaches instead: the call has raised
C16_Witness ==
  /\ cbLast.op = "getColormap" /\ cbLast.raised
  /\ colormap = NoColormap

(***************************************************************************)
(* Further properties of the StatsTable (checked under Spec)               *)
(***************************************************************************)
ActiveKeysAttached == ActiveKeysNow(plotRef)

\* C17: with a plot attached and statistics set, every tracked row belongs to
\* an item of the plot and shows the values computed from the item's current
\* data under the current visible-data flag (with the current view limits
\* when the flag is on): no row shows a stale value, in any reachable state.
C17_NoStaleValue ==
  (Attached /\ statsHandler # NoHandler)
  => \A k \in TrackedNow :
       /\ content[plotRef][k] # Absent
       /\ RowShowsCurrent(k)

C17_Witness ==
  /\ last.op = "limitsChanged"
  /\ plotRef = "p1" /\ statsHandler # NoHandler
  /\ statsOnVisibleData /\ limits["p1"] = 1
  /\ content["p1"][<<"a", "curve">>] = 1
  /\ TrackedNow = {<<"a", "curve">>, <<"a", "image">>}
  /\ lgdAndKindToItems[<<"a", "curve">>]["max"] = <<"max", 1, 1>>
  /\ lgdAndKindToItems[<<"a", "image">>]["max"] = <<"max", 0, 1>>

\* C18: a view event of the attached plot makes the table compute the
\* statistics of every tracked row, once, exactly when the table is in
\* visible-data mode and the event is 'limitsChanged'; in whole-data mode and
\* for another event nothing is computed; no view event changes the tracked
\* keys or the rows.
C18_ViewEvent ==
  [][(last'.op \in {"limitsChanged", "otherEvent"})
     => /\ TrackedNow' = TrackedNow
        /\ rows' = rows
        /\ \A k \in Keys :
             nbCalc'[k] = IF /\ last'.op = "limitsChanged"
                             /\ statsOnVisibleData
                             /\ plotRef = "p1"
                             /\ statsHandler # NoHandler
                             /\ k \in TrackedNow
                          THEN 1 ELSE 0]_vars

C18_Witness ==
  /\ last.op = "limitsChanged"
  /\ plotRef = "p1" /\ statsHandler # NoHandler
  /\ statsOnVisibleData
  /\ Cardinality(TrackedNow) = 2
  /\ \A k \in Keys : nbCalc[k] = IF k \in TrackedNow THEN 1 ELSE 0

\* C19: in active-item-only mode, after a notification of a change of the
\* active curve, image or scatter of the attached plot (also the one a removal
\* of the active item sends), the tracked keys are exactly the active curve,
\* image and scatter of the plot: one row each, at most one row per kind, no
\* histogram row.
C19_ActiveOnly ==
  [][(/\ \/ last'.op = "activeChanged"
         \/ /\ last'.op = "contentRemove"
            /\ last'.key[2] \in ActiveKinds
            /\ active["p1"][last'.key[2]] = last'.key[1]
      /\ displayOnlyActItem /\ plotRef = "p1")
     => /\ TrackedNow' = ActiveKeysAttached'
        /\ \A k \in Keys : rows'[k] = IF k \in TrackedNow' THEN 1 ELSE 0
        /\ \A k \in TrackedNow' : k[2] # "histogram"
        /\ \A k1, k2 \in TrackedNow' : k1[2] = k2[2] => k1 = k2]_vars

C19_Witness ==
  /\ last.op = "activeChanged"
  /\ displayOnlyActItem /\ plotRef = "p1"
  /\ content["p1"][<<"a", "curve">>] # Absent
  /\ itemConn["p1"][<<"a", "curve">>] > 0
  /\ active["p1"]["curve"] = "b"
  /\ TrackedNow = {<<"b", "curve">>}
  /\ RowCount(W) = 1

\* C20 as stated: every item of a plot has exactly one change callback of the
\* table when its key is tracked and the plot is the attached one, and none
\* otherwise; one item-changed notification computes the item's row at most
\* once.
C20_Original ==
  /\ \A p \in Plots, k \in Keys :
       itemConn[p][k] = IF p = plotRef /\ k \in TrackedNow THEN 1 ELSE 0
  /\ last.op = "itemChanged" => nbCalc[last.key] <= 1

\* the state the code reaches instead: one change of a tracked item has
\* computed its row twice
C20_Witness ==
  /\ last.op = "itemChanged" /\ last.was
  /\ plotRef = "p1" /\ ~displayOnlyActItem
  /\ rows[last.key] = 1
  /\ itemConn["p1"][last.key] = 2
  /\ nbCalc[last.key] = 2

(***************************************************************************)
(* The table on one plot holding up to three items, two of them with the   *)
(* same legend: item adds and removes, rebuilds and active-item changes.   *)
(***************************************************************************)
LegendKeys == {<<"a", "curve">>, <<"a", "image">>, <<"b", "curve">>}

\* addCurve/addImage with a new legend, on a plot holding any number of items
PlotAddAny(p, key, d) ==
  /\ content[p][key] = Absent
  /\ LET w1 == [W EXCEPT !.content[p][key] = d]
     IN Apply(EmitContentChanged(w1, p, "add", key))
  /\ last' = [op |-> "contentAdd", key |-> key, was |-> Was(key)]
  /\ UNCHANGED cbVars

LegendsNext ==
  \/ \E k \in LegendKeys : PlotAddAny("p1", k, 0)
  \/ \E k \in LegendKeys : PlotRemove("p1", k)
  \/ \E kind \in ActiveKinds, lgd \in Legends \cup {NoLegend} :
       PlotSetActive("p1", kind, lgd)
  \/ \E p \in {"p1", NoPlot} : SetPlot(p)
  \/ \E h \in Handlers : SetStats(h)
  \/ \E b \in BOOLEAN : SetDisplayOnlyActiveItem(b)
  \/ ClearTable

SpecLegends == Init /\ [][LegendsNext]_vars

\* self._legendsSet holds one entry per tracked key
LegendsPerKey ==
  \A l \in Legends :
    legendsSet[l] = Cardinality({k \in TrackedNow : k[1] = l})

SharedLegend ==
  \E k1, k2 \in TrackedNow : k1 # k2 /\ k1[1] = k2[1]

\* C21 as stated: in every reachable state the kind column is visible when
\* two tracked rows have the same legend, and the list of displayed legends
\* holds exactly one entry per tracked key.
C21_Original ==
  /\ SharedLegend => ~kindHidden
  /\ LegendsPerKey

\* the state the code reaches instead: the curve and the image "a" are both
\* shown, the curve "b" was added last, and the kind column is hidden
C21_Witness ==
  /\ last.op = "contentAdd" /\ last.key = <<"b", "curve">>
  /\ plotRef = "p1" /\ ~displayOnlyActItem
  /\ TrackedNow = LegendKeys
  /\ RowCount(W) = 3
  /\ LegendsPerKey
  /\ kindHidden

====
